---- MODULE Spec2Model ----
(***************************************************************************)
(* The epoch / batch training-and-validation loops of the two notebooks    *)
(*   training_with_pytorch/Video+6+-+Model+Training+with+PyTorch.ipynb     *)
(*   pytorch_tensorboard_support/1 - TensorBoard.ipynb                     *)
(* One statement of a loop body is one action; pc is the position of the   *)
(* single notebook kernel thread.                                          *)
(*                                                                         *)
(* Abstractions.  A batch is a small integer.  The learning weights are an *)
(* integer in 0..NumW-1; model(), loss_fn(), backward() and                *)
(* optimizer.step() are deterministic functions of weights and batch, as   *)
(* the networks of both notebooks (convolutions, pooling, linear layers,   *)
(* ReLU) have no mode-dependent or random layer.  A loader is the sequence *)
(* of batches it yields; for the shuffled training loader this is one of   *)
(* the orders the sampler can draw, and every epoch draws that order.      *)
(* The literal 1000 of `i % 1000 == 999` and `/ 1000` is the    *)
(* reporting interval N, drawn from 1..MaxN.  A float quotient a / b is    *)
(* kept as the exact fraction [num |-> a, den |-> b].                      *)
(***************************************************************************)
EXTENDS Integers, Sequences, FiniteSets, TLC

\* ------------------------------------------------------------- bounds ----
MaxB == 3        \* longest training sequence (batches per epoch)
MaxV == 2        \* longest validation sequence
MaxN == 2        \* largest reporting interval
MaxE == 2        \* largest EPOCHS
MaxEpochNumber == 4  \* the epoch-loop cell is not started beyond this count
MaxData == 0     \* batches are 0..MaxData
NumW == 3        \* number of distinct weight values

\* ---------------------------------------------------- program constants --
Sentinel == 1000000
TBEpochs == 1

Batches == 0..MaxData
Weights == 0..(NumW - 1)

VARIABLES
  nb,                \* which notebook the session runs
  pc,                \* position of the kernel
  training_loader,   \* the training batches, in the order yielded
  validation_loader, \* the validation batches, in loader order
  N,                 \* reporting interval (the literal 1000)
  EPOCHS,
  model,             \* the learning weights (Model State)
  grad,              \* the accumulated .grad of the weights
  mode,              \* model.training
  epoch,             \* loop variable of `for epoch in range(...)`
  epoch_number,      \* global epoch counter
  best_vloss,
  i,                 \* batch index of the training loop
  data,              \* current training batch
  outputs,
  loss,
  running_loss,
  last_loss,
  avg_loss,
  vi,                \* loop variable of the validation loop (None: not bound)
  vnext,             \* position of the validation iterator
  vdata,
  voutputs,
  vloss,
  running_vloss,
  avg_vloss,
  writer,            \* data points handed to the SummaryWriter, in order
  saved,             \* torch.save: epoch_number of the path -> state_dict
  run,               \* how many times the epoch-loop cell has been started
  start_epoch_number,\* history: epoch_number when the current run started
  epoch_losses,      \* history: losses of the batches of this epoch
  accumulated,       \* history: losses added to running_loss since its reset
  prev_vloss,        \* history: mean of the previous validation pass
  updates_since,     \* history: an optimizer step since that pass began
  untrained,         \* history: this pass follows the previous one directly
  trained,           \* history: positions of the batches updated in this run
  validated          \* history: positions of the batches evaluated in this run

vars == << nb, pc, training_loader, validation_loader, N, EPOCHS, model, grad,
           mode, epoch, epoch_number, best_vloss, i, data, outputs, loss,
           running_loss, last_loss, avg_loss, vi, vdata, voutputs, vloss,
           running_vloss, avg_vloss, writer, saved, run, start_epoch_number,
           epoch_losses, accumulated, prev_vloss, updates_since, untrained, vnext,
           trained, validated >>

inputs == << nb, training_loader, validation_loader, N, EPOCHS >>
trainLocals == << i, data, outputs, loss, running_loss, last_loss >>
valLocals == << vi, vnext, vdata, voutputs, vloss, running_vloss >>
history == << start_epoch_number, epoch_losses, accumulated, prev_vloss, updates_since,
             untrained >>

ghost == << trained, validated >>

None == -1

\* ----------------------------------------------------------- fractions ---
Frac(a, b) == [num |-> a, den |-> b]
FracLess(x, y) == x.num * y.den < y.num * x.den
FracEq(x, y) == x.num * y.den = y.num * x.den
NoFrac == Frac(0, 0)

RECURSIVE SumSeq(_)
SumSeq(s) == IF s = << >> THEN 0 ELSE Head(s) + SumSeq(Tail(s))

LastK(s, k) == IF Len(s) <= k THEN s ELSE SubSeq(s, Len(s) - k + 1, Len(s))

\* ------------------------------------------------------- collaborators ---
Forward(w, x) == (w + x) % NumW
\* Cross-entropy has no upper bound: the largest score stands for a model
\* that has diverged far enough for the loss of a batch to reach 1,000,000.
LossFn(out, labels) == IF out = NumW - 1 THEN Sentinel ELSE out + 1
Gradient(w, x) == x + 1
SgdStep(w, g) == (w + g) % NumW

\* ---------------------------------------------------------------- Init ---
\* The state after the cells above the loop have run: loaders built, model
\* constructed (its initial weights are the value 0), writer opened,
\* epoch_number = 0.
Init ==
  /\ nb \in {"Training", "TensorBoard"}
  /\ pc = "start"
  /\ training_loader \in UNION {[1..b -> Batches] : b \in 0..MaxB}
  /\ validation_loader \in UNION {[1..v -> Batches] : v \in 0..MaxV}
  /\ N \in 1..MaxN
  /\ EPOCHS \in 1..MaxE
  /\ (nb = "TensorBoard" => EPOCHS = TBEpochs)
  /\ model = 0
  /\ grad = 0
  /\ mode = TRUE
  /\ epoch = 0
  /\ epoch_number = 0
  /\ best_vloss = NoFrac
  /\ i = 0 /\ data = 0 /\ outputs = 0 /\ loss = 0
  /\ running_loss = 0 /\ last_loss = NoFrac /\ avg_loss = NoFrac
  /\ vi = None /\ vnext = 0 /\ vdata = 0 /\ voutputs = 0 /\ vloss = 0
  /\ running_vloss = 0 /\ avg_vloss = NoFrac
  /\ writer = << >>
  /\ saved = << >>
  /\ run = 0
  /\ start_epoch_number = 0
  /\ epoch_losses = << >>
  /\ accumulated = << >>
  /\ prev_vloss = NoFrac
  /\ updates_since = FALSE
  /\ untrained = FALSE
  /\ trained = << >>
  /\ validated = << >>

\* ------------------------------------------- the training notebook -------
TrainMean(sum) == Frac(sum, N)

\* `i % 1000 == 0` in place of `i % 1000 == 999`
IsReportBatch_first(k) == k % N = 0

IsReportBatch(k) == k % N = N - 1

\* the epoch offset left out of tb_x
TrainStep_noepoch(ep, k) == k + 1

TrainStep(ep, k) == ep * Len(training_loader) + k + 1

\* the pair tagged with epoch_number itself
PairStep_zero == epoch_number

PairStep == epoch_number + 1

\* the last batch index itself as divisor, without the + 1
ValMean_index(sum) == Frac(sum, vi)

ValMean(sum) == Frac(sum, vi + 1)

\* `>` in place of `<`
Improves_gt(v, best) == FracLess(best, v)

\* `<=` in place of `<`
Improves_le(v, best) == ~FracLess(best, v)

Improves(v, best) == FracLess(v, best)

\* the path formatted with the loop variable epoch instead of epoch_number
ModelPath_epoch == epoch

ModelPath == epoch_number

\* best_vloss = 1_000_000. moved to the session initialisation cell
StartRun_keepbest ==
  /\ nb = "Training"
  /\ pc \in {"start", "done"}
  /\ epoch_number + EPOCHS <= MaxEpochNumber
  /\ run' = run + 1
  /\ best_vloss' = IF run = 0 THEN Frac(Sentinel, 1) ELSE best_vloss
  /\ epoch' = 0
  /\ start_epoch_number' = epoch_number
  /\ pc' = "for_epoch"
  /\ trained' = << >>
  /\ validated' = << >>
  /\ UNCHANGED << inputs, model, grad, mode, epoch_number, trainLocals,
                  avg_loss, valLocals, avg_vloss, writer, saved, epoch_losses,
                  accumulated, prev_vloss, updates_since, untrained >>

\* EPOCHS = ...; best_vloss = 1_000_000.
StartRun ==
  /\ nb = "Training"
  /\ pc \in {"start", "done"}
  /\ epoch_number + EPOCHS <= MaxEpochNumber
  /\ run' = run + 1
  /\ best_vloss' = Frac(Sentinel, 1)
  /\ epoch' = 0
  /\ start_epoch_number' = epoch_number
  /\ pc' = "for_epoch"
  /\ trained' = << >>
  /\ validated' = << >>
  /\ UNCHANGED << inputs, model, grad, mode, epoch_number, trainLocals,
                  avg_loss, valLocals, avg_vloss, writer, saved, epoch_losses, accumulated,
                  prev_vloss, updates_since, untrained >>

\* model.train(True) left out of the epoch loop
ForEpoch_notrain ==
  /\ pc = "for_epoch"
  /\ pc' = IF epoch < EPOCHS THEN "train_one_epoch" ELSE "done"
  /\ UNCHANGED << inputs, ghost, model, grad, mode, epoch, epoch_number, best_vloss,
                  trainLocals, avg_loss, valLocals, avg_vloss, writer, saved,
                  run, history >>

\* for epoch in range(EPOCHS - 1)
ForEpoch_short ==
  /\ pc = "for_epoch"
  /\ IF epoch < EPOCHS - 1
       THEN /\ mode' = TRUE
            /\ pc' = "train_one_epoch"
       ELSE /\ pc' = "done"
            /\ UNCHANGED mode
  /\ UNCHANGED << inputs, ghost, model, grad, epoch, epoch_number, best_vloss,
                  trainLocals, avg_loss, valLocals, avg_vloss, writer, saved,
                  run, history >>

\* for epoch in range(EPOCHS): print; model.train(True)
ForEpoch ==
  /\ pc = "for_epoch"
  /\ IF epoch < EPOCHS
       THEN /\ mode' = TRUE
            /\ pc' = "train_one_epoch"
       ELSE /\ pc' = "done"
            /\ UNCHANGED mode
  /\ UNCHANGED << inputs, ghost, model, grad, epoch, epoch_number, best_vloss,
                  trainLocals, avg_loss, valLocals, avg_vloss, writer, saved,
                  run, history >>

\* running_loss initialised once, outside train_one_epoch
TrainOneEpoch_global ==
  /\ pc = "train_one_epoch"
  /\ last_loss' = Frac(0, 1)
  /\ i' = 0
  /\ epoch_losses' = << >>
  /\ pc' = "for_batch"
  /\ UNCHANGED << inputs, ghost, model, grad, mode, epoch, epoch_number,
                  best_vloss, data, outputs, loss, running_loss, avg_loss,
                  valLocals, avg_vloss, writer, saved, run,
                  start_epoch_number, accumulated, prev_vloss, updates_since,
                  untrained >>

\* train_one_epoch(epoch_number, writer): running_loss = 0.; last_loss = 0.
TrainOneEpoch ==
  /\ pc = "train_one_epoch"
  /\ running_loss' = 0
  /\ last_loss' = Frac(0, 1)
  /\ i' = 0
  /\ epoch_losses' = << >>
  /\ accumulated' = << >>
  /\ pc' = "for_batch"
  /\ UNCHANGED << inputs, ghost, model, grad, mode, epoch, epoch_number, best_vloss,
                  data, outputs, loss, avg_loss, valLocals, avg_vloss, writer,
                  saved, run, start_epoch_number, prev_vloss, updates_since,
                  untrained >>

\* `return last_loss` indented into the loop body: train_one_epoch returns
\* after its first batch
ForBatch_return ==
  /\ pc = "for_batch"
  /\ IF i < Len(training_loader) /\ i = 0
       THEN /\ data' = training_loader[i + 1]
            /\ pc' = "zero_grad"
            /\ UNCHANGED avg_loss
       ELSE /\ avg_loss' = last_loss
            /\ pc' = "eval_mode"
            /\ UNCHANGED data
  /\ UNCHANGED << inputs, ghost, model, grad, mode, epoch, epoch_number, best_vloss,
                  i, outputs, loss, running_loss, last_loss, valLocals,
                  avg_vloss, writer, saved, run, history >>

\* the function returns the mean of the batches left in the accumulator
\* when there are any: `return running_loss / count` after the loop
ForBatch_remainder ==
  /\ pc = "for_batch"
  /\ IF i < Len(training_loader)
       THEN /\ data' = training_loader[i + 1]
            /\ pc' = "zero_grad"
            /\ UNCHANGED avg_loss
       ELSE /\ avg_loss' = IF accumulated # << >>
                              THEN Frac(running_loss, Len(accumulated))
                              ELSE last_loss
            /\ pc' = "eval_mode"
            /\ UNCHANGED data
  /\ UNCHANGED << inputs, ghost, model, grad, mode, epoch, epoch_number,
                  best_vloss, i, outputs, loss, running_loss, last_loss,
                  valLocals, avg_vloss, writer, saved, run, history >>

\* for i, data in enumerate(training_loader) ... return last_loss
ForBatch ==
  /\ pc = "for_batch"
  /\ IF i < Len(training_loader)
       THEN /\ data' = training_loader[i + 1]
            /\ pc' = "zero_grad"
            /\ UNCHANGED avg_loss
       ELSE /\ avg_loss' = last_loss
            /\ pc' = "eval_mode"
            /\ UNCHANGED data
  /\ UNCHANGED << inputs, ghost, model, grad, mode, epoch, epoch_number, best_vloss,
                  i, outputs, loss, running_loss, last_loss, valLocals,
                  avg_vloss, writer, saved, run, history >>

\* optimizer.zero_grad() left out of the loop body
ZeroGrad_missing ==
  /\ pc = "zero_grad"
  /\ pc' = "predict"
  /\ UNCHANGED << inputs, ghost, model, grad, mode, epoch, epoch_number, best_vloss,
                  trainLocals, avg_loss, valLocals, avg_vloss, writer, saved,
                  run, history >>

\* optimizer.zero_grad()
ZeroGrad ==
  /\ pc = "zero_grad"
  /\ grad' = 0
  /\ pc' = "predict"
  /\ UNCHANGED << inputs, ghost, model, mode, epoch, epoch_number, best_vloss,
                  trainLocals, avg_loss, valLocals, avg_vloss, writer, saved,
                  run, history >>

\* outputs = model(inputs)
Predict ==
  /\ pc = "predict"
  /\ outputs' = Forward(model, data)
  /\ pc' = "compute_loss"
  /\ UNCHANGED << inputs, ghost, model, grad, mode, epoch, epoch_number, best_vloss,
                  i, data, loss, running_loss, last_loss, avg_loss, valLocals,
                  avg_vloss, writer, saved, run, history >>

\* loss = loss_fn(outputs, labels)
ComputeLoss ==
  /\ pc = "compute_loss"
  /\ loss' = LossFn(outputs, data)
  /\ pc' = "backward"
  /\ UNCHANGED << inputs, ghost, model, grad, mode, epoch, epoch_number, best_vloss,
                  i, data, outputs, running_loss, last_loss, avg_loss,
                  valLocals, avg_vloss, writer, saved, run, history >>

\* backward() called on the accumulated loss instead of the batch loss
Backward_running ==
  /\ pc = "backward"
  /\ grad' = grad + Gradient(model, data) + running_loss
  /\ pc' = "optimizer_step"
  /\ UNCHANGED << inputs, ghost, model, mode, epoch, epoch_number, best_vloss,
                  trainLocals, avg_loss, valLocals, avg_vloss, writer, saved,
                  run, history >>

\* optimizer.step() moved below the accumulation: backward() is followed
\* directly by running_loss += loss.item()
Backward_nostep ==
  /\ pc = "backward"
  /\ grad' = grad + Gradient(model, data)
  /\ pc' = "gather"
  /\ UNCHANGED << inputs, ghost, model, mode, epoch, epoch_number, best_vloss,
                  trainLocals, avg_loss, valLocals, avg_vloss, writer, saved,
                  run, history >>

\* loss.backward()
Backward ==
  /\ pc = "backward"
  /\ grad' = grad + Gradient(model, data)
  /\ pc' = "optimizer_step"
  /\ UNCHANGED << inputs, ghost, model, mode, epoch, epoch_number, best_vloss,
                  trainLocals, avg_loss, valLocals, avg_vloss, writer, saved,
                  run, history >>

\* optimizer.step()
OptimizerStep ==
  /\ pc = "optimizer_step"
  /\ model' = SgdStep(model, grad)
  /\ updates_since' = TRUE
  /\ pc' = "gather"
  /\ trained' = Append(trained, i + 1)
  /\ UNCHANGED << inputs, validated, grad, mode, epoch, epoch_number, best_vloss,
                  trainLocals, avg_loss, valLocals, avg_vloss, writer, saved,
                  run, start_epoch_number, epoch_losses, accumulated, prev_vloss, untrained >>

\* running_loss += loss.item()
Gather ==
  /\ pc = "gather"
  /\ running_loss' = running_loss + loss
  /\ epoch_losses' = Append(epoch_losses, loss)
  /\ accumulated' = Append(accumulated, loss)
  /\ pc' = "report"
  /\ UNCHANGED << inputs, ghost, model, grad, mode, epoch, epoch_number, best_vloss,
                  i, data, outputs, loss, last_loss, avg_loss, valLocals,
                  avg_vloss, writer, saved, run, start_epoch_number,
                  prev_vloss, updates_since, untrained >>

\* running_loss = 0. left out of the report block
Report_noreset ==
  /\ pc = "report"
  /\ IF IsReportBatch(i)
       THEN /\ last_loss' = TrainMean(running_loss)
            /\ writer' = Append(writer,
                 [tag |-> "Loss/train", step |-> TrainStep(epoch_number, i),
                  train |-> TrainMean(running_loss), valid |-> NoFrac])
       ELSE UNCHANGED << last_loss, writer >>
  /\ i' = i + 1
  /\ pc' = "for_batch"
  /\ UNCHANGED << inputs, ghost, model, grad, mode, epoch, epoch_number, best_vloss,
                  data, outputs, loss, running_loss, avg_loss, valLocals,
                  avg_vloss, saved, run, history >>

\* a checkpoint written by the report block: torch.save at every report
Report_checkpoint ==
  /\ pc = "report"
  /\ IF IsReportBatch(i)
       THEN /\ last_loss' = TrainMean(running_loss)
            /\ writer' = Append(writer,
                 [tag |-> "Loss/train", step |-> TrainStep(epoch_number, i),
                  train |-> TrainMean(running_loss), valid |-> NoFrac])
            /\ running_loss' = 0
            /\ accumulated' = << >>
            /\ saved' = [p \in DOMAIN saved \cup {ModelPath} |->
                           IF p = ModelPath THEN model ELSE saved[p]]
       ELSE UNCHANGED << last_loss, writer, running_loss, accumulated, saved >>
  /\ i' = i + 1
  /\ pc' = "for_batch"
  /\ UNCHANGED << inputs, ghost, model, grad, mode, epoch, epoch_number, best_vloss,
                  data, outputs, loss, avg_loss, valLocals, avg_vloss,
                  run, start_epoch_number, epoch_losses, prev_vloss,
                  updates_since, untrained >>

\* if i % 1000 == 999: last_loss = ...; add_scalar; running_loss = 0.
Report ==
  /\ pc = "report"
  /\ IF IsReportBatch(i)
       THEN /\ last_loss' = TrainMean(running_loss)
            /\ writer' = Append(writer,
                 [tag |-> "Loss/train", step |-> TrainStep(epoch_number, i),
                  train |-> TrainMean(running_loss), valid |-> NoFrac])
            /\ running_loss' = 0
            /\ accumulated' = << >>
       ELSE UNCHANGED << last_loss, writer, running_loss, accumulated >>
  /\ i' = i + 1
  /\ pc' = "for_batch"
  /\ UNCHANGED << inputs, ghost, model, grad, mode, epoch, epoch_number, best_vloss,
                  data, outputs, loss, avg_loss, valLocals, avg_vloss, saved,
                  run, start_epoch_number, epoch_losses, prev_vloss,
                  updates_since, untrained >>

\* running_vloss = 0.0 left out of the loop body
EvalMode_keep ==
  /\ pc = "eval_mode"
  /\ mode' = FALSE
  /\ vnext' = 0
  /\ prev_vloss' = avg_vloss
  /\ untrained' = (avg_vloss # NoFrac /\ ~updates_since)
  /\ updates_since' = FALSE
  /\ pc' = "for_vdata"
  /\ UNCHANGED << inputs, ghost, model, grad, epoch, epoch_number, best_vloss,
                  trainLocals, avg_loss, vi, vdata, voutputs, vloss,
                  running_vloss, avg_vloss, writer, saved, run,
                  start_epoch_number, epoch_losses, accumulated >>

\* model.train(False); running_vloss = 0.0
EvalMode ==
  /\ pc = "eval_mode"
  /\ mode' = FALSE
  /\ running_vloss' = 0
  /\ vnext' = 0
  /\ prev_vloss' = avg_vloss
  /\ untrained' = (avg_vloss # NoFrac /\ ~updates_since)
  /\ updates_since' = FALSE
  /\ pc' = "for_vdata"
  /\ UNCHANGED << inputs, ghost, model, grad, epoch, epoch_number, best_vloss,
                  trainLocals, avg_loss, vi, vdata, voutputs, vloss,
                  avg_vloss, writer, saved, run, start_epoch_number, epoch_losses, accumulated >>

\* for i, vdata in enumerate(validation_loader)
ForVdata ==
  /\ pc = "for_vdata"
  /\ IF vnext < Len(validation_loader)
       THEN /\ vi' = vnext
            /\ vdata' = validation_loader[vnext + 1]
            /\ vnext' = vnext + 1
            /\ pc' = "val_predict"
       ELSE /\ pc' = "avg_vloss"
            /\ UNCHANGED << vi, vdata, vnext >>
  /\ UNCHANGED << inputs, ghost, model, grad, mode, epoch, epoch_number, best_vloss,
                  trainLocals, avg_loss, voutputs, vloss, running_vloss,
                  avg_vloss, writer, saved, run, history >>

\* voutputs = model(vinputs)
ValPredict ==
  /\ pc = "val_predict"
  /\ voutputs' = Forward(model, vdata)
  /\ pc' = "val_loss"
  /\ UNCHANGED << inputs, ghost, model, grad, mode, epoch, epoch_number, best_vloss,
                  trainLocals, avg_loss, vi, vnext, vdata, vloss,
                  running_vloss, avg_vloss, writer, saved, run, history >>

\* vloss = loss_fn(voutputs, vlabels)
ValLoss ==
  /\ pc = "val_loss"
  /\ vloss' = LossFn(voutputs, vdata)
  /\ pc' = "val_gather"
  /\ validated' = Append(validated, vi + 1)
  /\ UNCHANGED << inputs, trained, model, grad, mode, epoch, epoch_number, best_vloss,
                  trainLocals, avg_loss, vi, vnext, vdata, voutputs,
                  running_vloss, avg_vloss, writer, saved, run, history >>

\* the validation loop body also calls optimizer.step()
ValGather_step ==
  /\ pc = "val_gather"
  /\ running_vloss' = running_vloss + vloss
  /\ model' = SgdStep(model, grad)
  /\ pc' = "for_vdata"
  /\ UNCHANGED << inputs, ghost, grad, mode, epoch, epoch_number, best_vloss,
                  trainLocals, avg_loss, vi, vnext, vdata, voutputs, vloss,
                  avg_vloss, writer, saved, run, history >>

\* running_vloss += vloss
ValGather ==
  /\ pc = "val_gather"
  /\ running_vloss' = running_vloss + vloss
  /\ pc' = "for_vdata"
  /\ UNCHANGED << inputs, ghost, model, grad, mode, epoch, epoch_number, best_vloss,
                  trainLocals, avg_loss, vi, vnext, vdata, voutputs, vloss,
                  avg_vloss, writer, saved, run, history >>

\* the divisor guarded against an empty pass: running_vloss / max(count, 1)
AvgVloss_guarded ==
  /\ pc = "avg_vloss"
  /\ avg_vloss' = IF vi = None THEN Frac(running_vloss, 1)
                                ELSE ValMean(running_vloss)
  /\ pc' = "add_scalars"
  /\ UNCHANGED << inputs, ghost, model, grad, mode, epoch, epoch_number,
                  best_vloss, trainLocals, avg_loss, valLocals, writer, saved,
                  run, history >>

\* avg_vloss = running_vloss / (i + 1); NameError when i was never bound
AvgVloss ==
  /\ pc = "avg_vloss"
  /\ IF vi = None
       THEN /\ pc' = "aborted"
            /\ UNCHANGED avg_vloss
       ELSE /\ avg_vloss' = ValMean(running_vloss)
            /\ pc' = "add_scalars"
  /\ UNCHANGED << inputs, ghost, model, grad, mode, epoch, epoch_number, best_vloss,
                  trainLocals, avg_loss, valLocals, writer, saved, run,
                  history >>

\* writer.add_scalars('Training vs. Validation Loss', {...}, epoch_number + 1)
AddScalars ==
  /\ pc = "add_scalars"
  /\ writer' = Append(writer,
       [tag |-> "Training vs. Validation Loss", step |-> PairStep,
        train |-> avg_loss, valid |-> avg_vloss])
  /\ pc' = "track_best"
  /\ UNCHANGED << inputs, ghost, model, grad, mode, epoch, epoch_number, best_vloss,
                  trainLocals, avg_loss, valLocals, avg_vloss, saved, run,
                  history >>

\* early stopping: `else: break` added to the best-so-far check
TrackBest_break ==
  /\ pc = "track_best"
  /\ IF Improves(avg_vloss, best_vloss)
       THEN /\ best_vloss' = avg_vloss
            /\ saved' = [p \in DOMAIN saved \cup {ModelPath} |->
                           IF p = ModelPath THEN model ELSE saved[p]]
            /\ pc' = "advance"
       ELSE /\ pc' = "done"
            /\ UNCHANGED << best_vloss, saved >>
  /\ UNCHANGED << inputs, ghost, model, grad, mode, epoch, epoch_number,
                  trainLocals, avg_loss, valLocals, avg_vloss, writer, run,
                  history >>

\* if avg_vloss < best_vloss: best_vloss = avg_vloss; torch.save(...)
TrackBest ==
  /\ pc = "track_best"
  /\ IF Improves(avg_vloss, best_vloss)
       THEN /\ best_vloss' = avg_vloss
            /\ saved' = [p \in DOMAIN saved \cup {ModelPath} |->
                           IF p = ModelPath THEN model ELSE saved[p]]
       ELSE UNCHANGED << best_vloss, saved >>
  /\ pc' = "advance"
  /\ UNCHANGED << inputs, ghost, model, grad, mode, epoch, epoch_number,
                  trainLocals, avg_loss, valLocals, avg_vloss, writer, run,
                  history >>

\* epoch_number += 1 indented into the `if avg_vloss < best_vloss` block
Advance_indented ==
  /\ pc = "advance"
  /\ epoch_number' = IF ModelPath \in DOMAIN saved THEN epoch_number + 1
                                                   ELSE epoch_number
  /\ epoch' = epoch + 1
  /\ pc' = "for_epoch"
  /\ UNCHANGED << inputs, ghost, model, grad, mode, best_vloss, trainLocals,
                  avg_loss, valLocals, avg_vloss, writer, saved, run,
                  history >>

\* epoch_number += 1, and the next iteration of range(EPOCHS)
Advance ==
  /\ pc = "advance"
  /\ epoch_number' = epoch_number + 1
  /\ epoch' = epoch + 1
  /\ pc' = "for_epoch"
  /\ UNCHANGED << inputs, ghost, model, grad, mode, best_vloss, trainLocals,
                  avg_loss, valLocals, avg_vloss, writer, saved, run,
                  history >>

\* ------------------------------------------ the TensorBoard notebook -----
TBStepIndex(ep, k) == ep * Len(training_loader) + k

TBValMean(sum) == Frac(sum, Len(validation_loader))

core == << model, grad, mode >>
outer == << epoch_number, best_vloss, saved, run, start_epoch_number >>

\* the cell is run: for epoch in range(1)
TBStart ==
  /\ nb = "TensorBoard"
  /\ pc = "start"
  /\ run' = run + 1
  /\ epoch' = 0
  /\ pc' = "tb_for_epoch"
  /\ trained' = << >>
  /\ validated' = << >>
  /\ UNCHANGED << inputs, core, epoch_number, best_vloss, saved,
                  trainLocals, avg_loss, valLocals, avg_vloss, writer,
                  history >>

\* for epoch in range(1): running_loss = 0.0
TBForEpoch ==
  /\ pc = "tb_for_epoch"
  /\ IF epoch < TBEpochs
       THEN /\ running_loss' = 0
            /\ i' = 0
            /\ epoch_losses' = << >>
            /\ accumulated' = << >>
            /\ pc' = "tb_for_batch"
       ELSE /\ pc' = "done"
            /\ UNCHANGED << running_loss, i, epoch_losses, accumulated >>
  /\ UNCHANGED << inputs, ghost, core, epoch, outer, data, outputs, loss, last_loss,
                  avg_loss, valLocals, avg_vloss, writer, prev_vloss,
                  updates_since, untrained >>

\* for i, data in enumerate(training_loader, 0)
TBForBatch ==
  /\ pc = "tb_for_batch"
  /\ IF i < Len(training_loader)
       THEN /\ data' = training_loader[i + 1]
            /\ pc' = "tb_zero_grad"
            /\ UNCHANGED epoch
       ELSE /\ epoch' = epoch + 1
            /\ pc' = "tb_for_epoch"
            /\ UNCHANGED data
  /\ UNCHANGED << inputs, ghost, core, outer, i, outputs, loss, running_loss,
                  last_loss, avg_loss, valLocals, avg_vloss, writer, epoch_losses, accumulated,
                  prev_vloss, updates_since, untrained >>

\* optimizer.zero_grad()
TBZeroGrad ==
  /\ pc = "tb_zero_grad"
  /\ grad' = 0
  /\ pc' = "tb_predict"
  /\ UNCHANGED << inputs, ghost, model, mode, epoch, outer, trainLocals, avg_loss,
                  valLocals, avg_vloss, writer, epoch_losses, accumulated, prev_vloss,
                  updates_since, untrained >>

\* outputs = net(inputs)
TBPredict ==
  /\ pc = "tb_predict"
  /\ outputs' = Forward(model, data)
  /\ pc' = "tb_compute_loss"
  /\ UNCHANGED << inputs, ghost, core, epoch, outer, i, data, loss, running_loss,
                  last_loss, avg_loss, valLocals, avg_vloss, writer, epoch_losses, accumulated,
                  prev_vloss, updates_since, untrained >>

\* loss = criterion(outputs, labels)
TBComputeLoss ==
  /\ pc = "tb_compute_loss"
  /\ loss' = LossFn(outputs, data)
  /\ pc' = "tb_backward"
  /\ UNCHANGED << inputs, ghost, core, epoch, outer, i, data, outputs, running_loss,
                  last_loss, avg_loss, valLocals, avg_vloss, writer, epoch_losses, accumulated,
                  prev_vloss, updates_since, untrained >>

\* loss.backward()
TBBackward ==
  /\ pc = "tb_backward"
  /\ grad' = grad + Gradient(model, data)
  /\ pc' = "tb_optimizer_step"
  /\ UNCHANGED << inputs, ghost, model, mode, epoch, outer, trainLocals, avg_loss,
                  valLocals, avg_vloss, writer, epoch_losses, accumulated, prev_vloss,
                  updates_since, untrained >>

\* optimizer.step()
TBOptimizerStep ==
  /\ pc = "tb_optimizer_step"
  /\ model' = SgdStep(model, grad)
  /\ updates_since' = TRUE
  /\ pc' = "tb_gather"
  /\ trained' = Append(trained, i + 1)
  /\ UNCHANGED << inputs, validated, grad, mode, epoch, outer, trainLocals, avg_loss,
                  valLocals, avg_vloss, writer, epoch_losses, accumulated, prev_vloss,
                  untrained >>

\* running_loss += loss.item()
TBGather ==
  /\ pc = "tb_gather"
  /\ running_loss' = running_loss + loss
  /\ epoch_losses' = Append(epoch_losses, loss)
  /\ accumulated' = Append(accumulated, loss)
  /\ pc' = "tb_check"
  /\ UNCHANGED << inputs, ghost, core, epoch, outer, i, data, outputs, loss,
                  last_loss, avg_loss, valLocals, avg_vloss, writer,
                  prev_vloss, updates_since, untrained >>

\* if i % 1000 == 999: print; running_vloss = 0.0
TBCheck ==
  /\ pc = "tb_check"
  /\ IF IsReportBatch(i)
       THEN /\ running_vloss' = 0
            /\ pc' = "tb_eval_mode"
            /\ UNCHANGED i
       ELSE /\ i' = i + 1
            /\ pc' = "tb_for_batch"
            /\ UNCHANGED running_vloss
  /\ UNCHANGED << inputs, ghost, core, epoch, outer, data, outputs, loss,
                  running_loss, last_loss, avg_loss, vi, vnext, vdata,
                  voutputs, vloss, avg_vloss, writer, epoch_losses, accumulated, prev_vloss,
                  updates_since, untrained >>

\* net.train(False)
TBEvalMode ==
  /\ pc = "tb_eval_mode"
  /\ mode' = FALSE
  /\ vnext' = 0
  /\ prev_vloss' = avg_vloss
  /\ untrained' = (avg_vloss # NoFrac /\ ~updates_since)
  /\ updates_since' = FALSE
  /\ pc' = "tb_for_vdata"
  /\ UNCHANGED << inputs, ghost, model, grad, epoch, outer, trainLocals, avg_loss,
                  vi, vdata, voutputs, vloss, running_vloss, avg_vloss,
                  writer, epoch_losses, accumulated >>

\* for j, vdata in enumerate(validation_loader, 0)
TBForVdata ==
  /\ pc = "tb_for_vdata"
  /\ IF vnext < Len(validation_loader)
       THEN /\ vi' = vnext
            /\ vdata' = validation_loader[vnext + 1]
            /\ vnext' = vnext + 1
            /\ pc' = "tb_val_predict"
       ELSE /\ pc' = "tb_train_mode"
            /\ UNCHANGED << vi, vdata, vnext >>
  /\ UNCHANGED << inputs, ghost, core, epoch, outer, trainLocals, avg_loss,
                  voutputs, vloss, running_vloss, avg_vloss, writer, epoch_losses, accumulated,
                  prev_vloss, updates_since, untrained >>

\* voutputs = net(vinputs)
TBValPredict ==
  /\ pc = "tb_val_predict"
  /\ voutputs' = Forward(model, vdata)
  /\ pc' = "tb_val_loss"
  /\ UNCHANGED << inputs, ghost, core, epoch, outer, trainLocals, avg_loss, vi,
                  vnext, vdata, vloss, running_vloss, avg_vloss, writer,
                  epoch_losses, accumulated, prev_vloss, updates_since, untrained >>

\* vloss = criterion(voutputs, vlabels)
TBValLoss ==
  /\ pc = "tb_val_loss"
  /\ vloss' = LossFn(voutputs, vdata)
  /\ pc' = "tb_val_gather"
  /\ validated' = Append(validated, vi + 1)
  /\ UNCHANGED << inputs, trained, core, epoch, outer, trainLocals, avg_loss, vi,
                  vnext, vdata, voutputs, running_vloss, avg_vloss, writer,
                  epoch_losses, accumulated, prev_vloss, updates_since, untrained >>

\* running_vloss += vloss.item()
TBValGather ==
  /\ pc = "tb_val_gather"
  /\ running_vloss' = running_vloss + vloss
  /\ pc' = "tb_for_vdata"
  /\ UNCHANGED << inputs, ghost, core, epoch, outer, trainLocals, avg_loss, vi,
                  vnext, vdata, voutputs, vloss, avg_vloss, writer, epoch_losses, accumulated,
                  prev_vloss, updates_since, untrained >>

\* net.train(True)
TBTrainMode ==
  /\ pc = "tb_train_mode"
  /\ mode' = TRUE
  /\ pc' = "tb_averages"
  /\ UNCHANGED << inputs, ghost, model, grad, epoch, outer, trainLocals, avg_loss,
                  valLocals, avg_vloss, writer, epoch_losses, accumulated, prev_vloss,
                  updates_since, untrained >>

\* avg_loss = running_loss / 1000
\* avg_vloss = running_vloss / len(validation_loader); ZeroDivisionError
TBAverages ==
  /\ pc = "tb_averages"
  /\ avg_loss' = TrainMean(running_loss)
  /\ IF Len(validation_loader) = 0
       THEN /\ pc' = "aborted"
            /\ UNCHANGED avg_vloss
       ELSE /\ avg_vloss' = TBValMean(running_vloss)
            /\ pc' = "tb_report"
  /\ UNCHANGED << inputs, ghost, core, epoch, outer, trainLocals, valLocals, writer,
                  epoch_losses, accumulated, prev_vloss, updates_since, untrained >>

\* writer.add_scalars(..., epoch * len(training_loader) + i)
\* running_loss = 0.0
TBReport ==
  /\ pc = "tb_report"
  /\ writer' = Append(writer,
       [tag |-> "Training vs. Validation Loss",
        step |-> TBStepIndex(epoch, i),
        train |-> avg_loss, valid |-> avg_vloss])
  /\ running_loss' = 0
  /\ accumulated' = << >>
  /\ i' = i + 1
  /\ pc' = "tb_for_batch"
  /\ UNCHANGED << inputs, ghost, core, epoch, outer, data, outputs, loss, last_loss,
                  avg_loss, valLocals, avg_vloss, epoch_losses, prev_vloss,
                  updates_since, untrained >>

\* the loop body wrapped in `try: ... except Exception: continue`
Raise_caught ==
  /\ pc \in {"predict", "compute_loss", "backward", "optimizer_step",
             "val_predict", "val_loss",
             "tb_predict", "tb_compute_loss", "tb_backward",
             "tb_optimizer_step", "tb_val_predict", "tb_val_loss"}
  /\ pc' = CASE pc \in {"predict", "compute_loss", "backward",
                        "optimizer_step"} -> "for_batch"
              [] pc \in {"val_predict", "val_loss"} -> "for_vdata"
              [] pc \in {"tb_val_predict", "tb_val_loss"} -> "tb_for_vdata"
              [] OTHER -> "tb_for_batch"
  /\ i' = IF pc' \in {"for_batch", "tb_for_batch"} THEN i + 1 ELSE i
  /\ UNCHANGED << inputs, ghost, model, grad, mode, epoch, epoch_number, best_vloss,
                  data, outputs, loss, running_loss, last_loss, avg_loss,
                  valLocals, avg_vloss, writer, saved, run, history >>

\* the epoch body wrapped in `try: ... finally: epoch_number += 1`
Raise_finally ==
  /\ pc \in {"predict", "compute_loss", "backward", "optimizer_step",
             "val_predict", "val_loss",
             "tb_predict", "tb_compute_loss", "tb_backward",
             "tb_optimizer_step", "tb_val_predict", "tb_val_loss"}
  /\ pc' = "aborted"
  /\ epoch_number' = epoch_number + 1
  /\ UNCHANGED << inputs, ghost, model, grad, mode, epoch, best_vloss,
                  trainLocals, avg_loss, valLocals, avg_vloss, writer, saved,
                  run, history >>

\* an exception of model(), loss_fn(), backward() or optimizer.step()
Raise ==
  /\ pc \in {"predict", "compute_loss", "backward", "optimizer_step",
             "val_predict", "val_loss",
             "tb_predict", "tb_compute_loss", "tb_backward",
             "tb_optimizer_step", "tb_val_predict", "tb_val_loss"}
  /\ pc' = "aborted"
  /\ UNCHANGED << inputs, ghost, model, grad, mode, epoch, epoch_number, best_vloss,
                  trainLocals, avg_loss, valLocals, avg_vloss, writer, saved,
                  run, history >>

Next ==
  \/ StartRun \/ ForEpoch \/ TrainOneEpoch \/ ForBatch \/ ZeroGrad
  \/ Predict \/ ComputeLoss \/ Backward \/ OptimizerStep \/ Gather \/ Report
  \/ EvalMode \/ ForVdata \/ ValPredict \/ ValLoss \/ ValGather \/ AvgVloss
  \/ AddScalars \/ TrackBest \/ Advance
  \/ TBStart \/ TBForEpoch \/ TBForBatch \/ TBZeroGrad \/ TBPredict
  \/ TBComputeLoss \/ TBBackward \/ TBOptimizerStep \/ TBGather \/ TBCheck
  \/ TBEvalMode \/ TBForVdata \/ TBValPredict \/ TBValLoss \/ TBValGather
  \/ TBTrainMode \/ TBAverages \/ TBReport
  \/ Raise

Spec == Init /\ [][Next]_vars

\* The kernel runs a started cell statement by statement: the statement the
\* cell is at is executed, unless a call in it raises.  Starting a cell is
\* up to the user.
Continue ==
  \/ ForEpoch \/ TrainOneEpoch \/ ForBatch \/ ZeroGrad
  \/ Predict \/ ComputeLoss \/ Backward \/ OptimizerStep \/ Gather \/ Report
  \/ EvalMode \/ ForVdata \/ ValPredict \/ ValLoss \/ ValGather \/ AvgVloss
  \/ AddScalars \/ TrackBest \/ Advance
  \/ TBForEpoch \/ TBForBatch \/ TBZeroGrad \/ TBPredict
  \/ TBComputeLoss \/ TBBackward \/ TBOptimizerStep \/ TBGather \/ TBCheck
  \/ TBEvalMode \/ TBForVdata \/ TBValPredict \/ TBValLoss \/ TBValGather
  \/ TBTrainMode \/ TBAverages \/ TBReport

LiveSpec == Init /\ [][Next]_vars /\ WF_vars(Continue)

\* ================================================================ claims =
ValidationPcs ==
  {"eval_mode", "for_vdata", "val_predict", "val_loss", "val_gather",
   "avg_vloss",
   "tb_eval_mode", "tb_for_vdata", "tb_val_predict", "tb_val_loss",
   "tb_val_gather", "tb_train_mode"}

\* C1: at the best-so-far check of an epoch the threshold is replaced if and
\* only if the epoch's mean validation loss is strictly less than it, and
\* the threshold changes exactly when a snapshot of the current Model State
\* is persisted under that epoch's path: never one without the other.
C1_ReplacedIffStrictlyLess ==
  [][pc = "track_best" =>
       /\ FracLess(avg_vloss, best_vloss) <=> ~FracEq(best_vloss', best_vloss)
       /\ ~FracEq(best_vloss', best_vloss) <=> ModelPath \in DOMAIN saved'
       /\ ModelPath \in DOMAIN saved' =>
            /\ saved'[ModelPath] = model
            /\ FracEq(best_vloss', avg_vloss)
       /\ ModelPath \notin DOMAIN saved' => saved' = saved
       /\ \A q \in DOMAIN saved : q \in DOMAIN saved' /\ saved'[q] = saved[q]
    ]_vars

\* an epoch ended with a mean equal to the threshold set by an earlier
\* epoch, and nothing was persisted for it
C1_Witness ==
  /\ pc = "advance"
  /\ epoch >= 1
  /\ FracEq(avg_vloss, best_vloss)
  /\ ModelPath \notin DOMAIN saved
  /\ DOMAIN saved # {}

\* C2: no step of a validation pass changes Model State or the gradients
\* (no backward, no optimizer step), and the only step of the whole run that
\* changes Model State is optimizer.step() of a training batch.
C2_ValidationReadOnly ==
  [][/\ pc \in ValidationPcs => (model' = model /\ grad' = grad)
     /\ model' # model => pc \in {"optimizer_step", "tb_optimizer_step"}
    ]_vars

\* a validation pass over two batches has finished in an epoch that trained
C2_Witness ==
  /\ pc = "avg_vloss"
  /\ vnext = 2
  /\ running_vloss > 0
  /\ Len(epoch_losses) >= 1
  /\ grad # 0

\* C3: a validation pass that follows the previous pass with no optimizer
\* step in between yields the same mean validation loss as that pass.
C3_RepeatedValidationSame ==
  (pc \in {"add_scalars", "tb_report"} /\ untrained)
     => (FracEq(avg_vloss, prev_vloss) /\ (pc = "add_scalars" => ~mode))

\* the second of two back-to-back passes has computed a non-zero mean
C3_Witness ==
  /\ pc = "add_scalars"
  /\ untrained
  /\ avg_vloss.num > 0

\* C4: a run that reaches its end has advanced the epoch counter by EPOCHS;
\* inside the loop the counter is ahead of its start value by the number of
\* finished epochs, and it only ever changes by +1 in the last step of an
\* epoch.
C4_EpochCounter ==
  /\ [](nb = "Training" /\ pc = "done"
          => epoch_number = start_epoch_number + EPOCHS)
  /\ [](nb = "Training" /\ pc \notin {"start", "done"}
          => epoch_number = start_epoch_number + epoch)
  /\ [][epoch_number' # epoch_number =>
          /\ pc = "advance"
          /\ pc' = "for_epoch"
          /\ epoch_number' = epoch_number + 1]_vars

\* a second run of two epochs, started from a non-zero counter, has finished
C4_Witness ==
  /\ nb = "Training"
  /\ pc = "done"
  /\ run = 2
  /\ EPOCHS = 2
  /\ start_epoch_number = 2
  /\ epoch_number = 4

ReportPcs == {"report", "tb_report"}

\* C5: every training-progress report leaves the accumulator at 0, and the
\* mean it reports is the sum of the losses added since the previous reset,
\* which are at most N, divided by N.
C5_ReportResetsAccumulator ==
  [][(pc \in ReportPcs /\ Len(writer') > Len(writer)) =>
       /\ running_loss' = 0
       /\ Len(accumulated) <= N
       /\ writer'[Len(writer')].train = Frac(SumSeq(accumulated), N)
    ]_vars

\* a report over two batches has been made in a later epoch of the run
C5_Witness ==
  /\ pc = "for_batch"
  /\ N = 2
  /\ i = 2
  /\ epoch >= 1
  /\ running_loss = 0
  /\ Len(writer) >= 2
  /\ writer[Len(writer)].tag = "Loss/train"
  /\ writer[Len(writer)].train.num >= 2

B == Len(training_loader)

\* the 'Loss/train' points whose step index falls into epoch e (0-based)
TrainPoints(e) ==
  {k \in 1..Len(writer) :
     /\ writer[k].tag = "Loss/train"
     /\ writer[k].step \in (e * B + 1)..((e + 1) * B)}

\* the paired points tagged with epoch e (0-based), i.e. with step e + 1
PairPoints(e) ==
  {k \in 1..Len(writer) :
     /\ writer[k].tag = "Training vs. Validation Loss"
     /\ writer[k].step = e + 1}

MaxOf(S) == CHOOSE x \in S : \A y \in S : y <= x

TrainLoopPcs ==
  {"for_batch", "zero_grad", "predict", "compute_loss", "backward",
   "optimizer_step", "gather", "report"}

AfterTrainPcs ==
  {"eval_mode", "for_vdata", "val_predict", "val_loss", "val_gather",
   "avg_vloss", "add_scalars"}

\* C6 (as claimed): when the number of training batches is not a multiple
\* of N, the training value handed to the end-of-epoch report is the mean of
\* the losses accumulated since the previous reset, divided by their count.
C6_EndOfEpochTrueCount ==
  (nb = "Training" /\ pc = "eval_mode" /\ B % N # 0)
     => FracEq(avg_loss, Frac(SumSeq(accumulated), Len(accumulated)))

\* C7 (as documented): train_one_epoch returns the average loss of the last
\* N batches of the epoch.
C7_ReturnsLastNAverage ==
  (nb = "Training" /\ pc = "eval_mode" /\ B >= N)
     => FracEq(avg_loss, Frac(SumSeq(LastK(epoch_losses, N)), N))

\* C8: every finished epoch has exactly B div N training-progress points, at
\* the batch positions N, 2N, ..., all of them before the epoch's one paired
\* point; while an epoch runs, the points so far sit at the multiples of N
\* among the batches already processed.
C8_ReportsPerEpoch ==
  nb = "Training" =>
    /\ \A e \in 0..(epoch_number - 1) :
         LET tp == TrainPoints(e)
             pp == PairPoints(e)
         IN  /\ {writer[k].step - e * B : k \in tp}
                  = {m * N : m \in 1..(B \div N)}
             /\ Cardinality(tp) = B \div N
             /\ Cardinality(pp) = 1
             /\ \A k \in tp, q \in pp : k < q
    /\ pc \in TrainLoopPcs \cup AfterTrainPcs =>
         LET tp == TrainPoints(epoch_number)
         IN  /\ {writer[k].step - epoch_number * B : k \in tp}
                  = {m * N : m \in 1..(i \div N)}
             /\ Cardinality(tp) = i \div N

\* one epoch over 2 batches with N = 1 has finished with 2 progress points
C8_Witness ==
  /\ nb = "Training"
  /\ pc = "done"
  /\ EPOCHS = 1 /\ run = 1
  /\ B = 2 /\ N = 1
  /\ Cardinality(TrainPoints(0)) = 2
  /\ Cardinality(PairPoints(0)) = 1

\* the training-progress points of the session, by position in the log
ProgressPoints ==
  {k \in 1..Len(writer) : nb = "Training" => writer[k].tag = "Loss/train"}

\* C9: over the whole log of a session, a later training-progress point
\* carries a strictly larger step index than every earlier one.
C9_StepIndexIncreasing ==
  \A j, k \in ProgressPoints : j < k => writer[j].step < writer[k].step

\* progress points of two epochs of a first run and of a second run
C9_Witness ==
  /\ nb = "Training"
  /\ run = 2
  /\ EPOCHS = 2
  /\ epoch_number = 3
  /\ \A e \in 0..2 : Cardinality(TrainPoints(e)) >= 2

ValidationLosses ==
  [k \in 1..Len(validation_loader) |->
     LossFn(Forward(model, validation_loader[k]), validation_loader[k])]

\* C11: when a validation pass has produced its mean, the mean is the sum of
\* the per-batch validation losses divided by the number of batches of the
\* validation sequence, and the training notebook's divisor (last batch
\* index + 1) is the same number as the TensorBoard notebook's (len).
C11_ValMeanOverBatchCount ==
  pc \in {"add_scalars", "tb_report"} =>
    /\ vi + 1 = Len(validation_loader)
    /\ running_vloss = SumSeq(ValidationLosses)
    /\ avg_vloss = Frac(SumSeq(ValidationLosses), Len(validation_loader))
    /\ ValMean(running_vloss) = TBValMean(running_vloss)

\* the training notebook has averaged a pass over two validation batches
\* in a later epoch
C11_Witness ==
  /\ nb = "Training"
  /\ pc = "add_scalars"
  /\ epoch >= 1
  /\ Len(validation_loader) = 2
  /\ vi = 1
  /\ avg_vloss.den = 2
  /\ avg_vloss.num >= 2

\* C12 (as claimed): the mean validation loss of the first epoch of a run is
\* strictly less than the initial threshold, so that epoch replaces the
\* threshold and persists a snapshot.
C12_FirstEpochReplaces ==
  /\ (nb = "Training" /\ pc = "track_best" /\ epoch = 0) =>
        /\ best_vloss = Frac(Sentinel, 1)
        /\ FracLess(avg_vloss, best_vloss)
  /\ (nb = "Training" /\ pc = "advance" /\ epoch = 0) =>
        /\ ModelPath \in DOMAIN saved
        /\ saved[ModelPath] = model
        /\ best_vloss = avg_vloss

\* the statements that call the scoring function, the loss functional or
\* the update procedure, and where each continues when the call returns
CallPcs ==
  {"predict", "compute_loss", "backward", "optimizer_step",
   "val_predict", "val_loss",
   "tb_predict", "tb_compute_loss", "tb_backward", "tb_optimizer_step",
   "tb_val_predict", "tb_val_loss"}

ReturnsTo(p) ==
  CASE p = "predict" -> "compute_loss"
    [] p = "compute_loss" -> "backward"
    [] p = "backward" -> "optimizer_step"
    [] p = "optimizer_step" -> "gather"
    [] p = "val_predict" -> "val_loss"
    [] p = "val_loss" -> "val_gather"
    [] p = "tb_predict" -> "tb_compute_loss"
    [] p = "tb_compute_loss" -> "tb_backward"
    [] p = "tb_backward" -> "tb_optimizer_step"
    [] p = "tb_optimizer_step" -> "tb_gather"
    [] p = "tb_val_predict" -> "tb_val_loss"
    [] p = "tb_val_loss" -> "tb_val_gather"

allButPc ==
  << inputs, ghost, model, grad, mode, epoch, epoch_number, best_vloss, trainLocals,
     avg_loss, valLocals, avg_vloss, writer, saved, run, history >>

\* C13: a call of the scoring function, the loss functional or the update
\* procedure that does not return leaves the run aborted at that statement
\* with nothing else changed (no handler runs, no batch is skipped or
\* retried), and an aborted run takes no further step: no batch is
\* fetched, no Model State or gradient changes, nothing is emitted or
\* persisted.
C13_ErrorAborts ==
  [][/\ (pc \in CallPcs /\ pc' # ReturnsTo(pc)) =>
          (pc' = "aborted" /\ UNCHANGED allButPc)
     /\ pc = "aborted" => (pc' = "aborted" /\ UNCHANGED allButPc)
    ]_vars

\* a run aborted by an error in a training batch of a later epoch, with
\* batches left to process and points and a snapshot already written
C13_Witness ==
  /\ nb = "Training"
  /\ pc = "aborted"
  /\ epoch >= 1
  /\ i < Len(training_loader) - 1
  /\ Len(validation_loader) >= 1
  /\ writer # << >>
  /\ DOMAIN saved # {}

\* The Model State after n updates of the session, as a function of the
\* training sequence alone: update m uses batch ((m - 1) mod B) + 1 and
\* the gradient of that batch only.  N does not occur in it.
RECURSIVE RefModel(_)
RefModel(n) ==
  IF n = 0 THEN 0
  ELSE LET w == RefModel(n - 1)
           x == training_loader[((n - 1) % B) + 1]
       IN  SgdStep(w, Gradient(w, x))

\* the mean validation loss of a pass made after n updates; N-free as well
RefValMean(n) ==
  LET w == RefModel(n)
  IN  Frac(SumSeq([k \in 1..Len(validation_loader) |->
                     LossFn(Forward(w, validation_loader[k]),
                            validation_loader[k])]),
           Len(validation_loader))

\* the number of updates applied since the session started
UpdatesDone ==
  epoch_number * B + i + (IF pc \in {"gather", "report"} THEN 1 ELSE 0)

\* C14: in the training notebook the Model State at every point of a run
\* and the mean validation loss of every epoch are the values given by
\* RefModel and RefValMean, which depend on the training and validation
\* sequences and on the position in the run but not on N or on the
\* accumulator: two runs that differ only in N pass through the same Model
\* States and the same mean validation losses.
C14_DynamicsIndependentOfN ==
  (nb = "Training"
     /\ pc \in TrainLoopPcs \cup AfterTrainPcs \cup {"track_best", "advance"})
  => /\ model = RefModel(UpdatesDone)
     /\ pc \in {"add_scalars", "track_best", "advance"} =>
          avg_vloss = RefValMean((epoch_number + 1) * B)

\* a later epoch in which the accumulator was reset between two batches
\* has trained the model and produced its mean validation loss
C14_Witness ==
  /\ nb = "Training"
  /\ pc = "track_best"
  /\ epoch_number >= 1
  /\ N = 2
  /\ B = 3
  /\ running_loss > 0
  /\ TrainPoints(epoch_number) # {}
  /\ Len(epoch_losses) = 3
  /\ avg_vloss.num > 0

\* the number of training batches fully processed before the current one
BatchesBefore == (IF nb = "Training" THEN epoch_number ELSE epoch) * B + i

\* C15: the state at each statement of a training batch shows the steps
\* before it done, in order, and the steps after it not yet done: the
\* batch is fetched with all earlier batches updated and accumulated;
\* gradients are clear from zero_grad until backward; scores are those of
\* the not yet updated weights on the current batch, the loss is that of
\* these scores; the update is applied before the loss is accumulated, and
\* the loss is accumulated before the next batch is fetched.
C15_BatchStepOrder ==
  /\ pc \in {"for_batch", "tb_for_batch"} =>
        /\ model = RefModel(BatchesBefore)
        /\ Len(epoch_losses) = i
  /\ pc \in {"zero_grad", "predict", "compute_loss", "backward",
             "optimizer_step", "tb_zero_grad", "tb_predict",
             "tb_compute_loss", "tb_backward", "tb_optimizer_step"} =>
        /\ data = training_loader[i + 1]
        /\ model = RefModel(BatchesBefore)
        /\ Len(epoch_losses) = i
  /\ pc \in {"predict", "compute_loss", "backward",
             "tb_predict", "tb_compute_loss", "tb_backward"} =>
        grad = 0
  /\ pc \in {"compute_loss", "backward", "optimizer_step",
             "tb_compute_loss", "tb_backward", "tb_optimizer_step"} =>
        outputs = Forward(model, data)
  /\ pc \in {"backward", "optimizer_step",
             "tb_backward", "tb_optimizer_step"} =>
        loss = LossFn(Forward(model, data), data)
  /\ pc \in {"optimizer_step", "tb_optimizer_step"} =>
        grad # 0
  /\ pc \in {"gather", "tb_gather"} =>
        /\ model = RefModel(BatchesBefore + 1)
        /\ loss = LossFn(Forward(RefModel(BatchesBefore), data), data)
        /\ Len(epoch_losses) = i
  /\ pc \in {"report", "tb_check"} =>
        /\ model = RefModel(BatchesBefore + 1)
        /\ Len(epoch_losses) = i + 1
        /\ epoch_losses[i + 1] = loss

\* the second batch of a later epoch has been updated and its loss is about
\* to be accumulated
C15_Witness ==
  /\ nb = "Training"
  /\ pc = "gather"
  /\ epoch >= 1
  /\ i = 1
  /\ model # RefModel(BatchesBefore)
  /\ Len(epoch_losses) = 1

C17_ModeFlag ==
  /\ pc \in {"zero_grad", "predict", "compute_loss", "backward",
             "optimizer_step", "gather", "report",
             "tb_zero_grad", "tb_predict", "tb_compute_loss", "tb_backward",
             "tb_optimizer_step", "tb_gather", "tb_check"} => mode = TRUE
  /\ pc \in {"for_vdata", "val_predict", "val_loss", "val_gather",
             "tb_for_vdata", "tb_val_predict", "tb_val_loss",
             "tb_val_gather"} => mode = FALSE

\* a training batch is scored in training mode after the validation pass
\* of the previous epoch had switched the mode
C17_Witness ==
  /\ nb = "Training"
  /\ pc = "predict"
  /\ epoch >= 1
  /\ avg_vloss # NoFrac
  /\ mode = TRUE

\* C18: while a training batch is processed no validation pass is under
\* way (the validation iterator has not been started or is exhausted);
\* while the validation pass of an epoch of the training notebook is under
\* way every training batch of that epoch has been updated and
\* accumulated; a validation pass of the TensorBoard notebook is under way
\* only at a report batch that has been updated and accumulated, with the
\* next batch not yet fetched.
C18_NoOverlap ==
  /\ pc \in {"zero_grad", "predict", "compute_loss", "backward",
             "optimizer_step", "gather", "report",
             "tb_zero_grad", "tb_predict", "tb_compute_loss", "tb_backward",
             "tb_optimizer_step", "tb_gather", "tb_check"} =>
        \/ vi = None /\ vnext = 0
        \/ vi + 1 = Len(validation_loader) /\ vnext = Len(validation_loader)
  /\ pc \in {"eval_mode", "for_vdata", "val_predict", "val_loss",
             "val_gather", "avg_vloss"} =>
        /\ i = B
        /\ Len(epoch_losses) = B
        /\ model = RefModel((epoch_number + 1) * B)
  /\ pc \in {"tb_eval_mode", "tb_for_vdata", "tb_val_predict",
             "tb_val_loss", "tb_val_gather", "tb_train_mode"} =>
        /\ IsReportBatch(i)
        /\ Len(epoch_losses) = i + 1
        /\ data = training_loader[i + 1]
        /\ model = RefModel(BatchesBefore + 1)

\* the second validation batch of a later epoch is processed after all
\* training batches of that epoch
C18_Witness ==
  /\ nb = "Training"
  /\ pc = "val_loss"
  /\ epoch >= 1
  /\ B >= 2
  /\ i = B
  /\ vnext = 2

\* C19: a snapshot is persisted only by the best-so-far check of an epoch,
\* when every training batch of the epoch has been processed and its
\* validation pass is complete, and it leaves Model State, gradients and
\* loop positions alone; it adds one path, that of the current epoch,
\* which had no snapshot yet, and the epoch counter advances before any
\* further batch; the threshold is replaced only together with a persist
\* (or reset when a run starts).
C19_SnapshotBetweenEpochs ==
  /\ [][saved' # saved =>
          /\ pc = "track_best" /\ pc' = "advance"
          /\ i = B /\ Len(epoch_losses) = B
          /\ vnext = Len(validation_loader)
          /\ UNCHANGED << model, grad, i, vnext, epoch_number, writer >>
          /\ ModelPath \notin DOMAIN saved
          /\ DOMAIN saved' = DOMAIN saved \cup {ModelPath}
          /\ saved'[ModelPath] = model
          /\ \A q \in DOMAIN saved : saved'[q] = saved[q]]_vars
  /\ [][best_vloss' # best_vloss =>
          \/ pc = "track_best" /\ saved' # saved
          \/ run' # run /\ saved' = saved]_vars
  /\ [](/\ DOMAIN saved \subseteq 0..epoch_number
        /\ epoch_number \in DOMAIN saved => pc = "advance")

\* a second snapshot has been persisted, by a later epoch that trained
C19_Witness ==
  /\ pc = "advance"
  /\ epoch_number >= 1
  /\ B >= 1
  /\ ModelPath \in DOMAIN saved
  /\ Cardinality(DOMAIN saved) >= 2
  /\ saved[ModelPath] = model

\* the paired points of the current run
RunPairPoints ==
  {k \in 1..Len(writer) :
     /\ writer[k].tag = "Training vs. Validation Loss"
     /\ writer[k].step > start_epoch_number}

\* C20: a started run of the training notebook over a non-empty validation
\* sequence eventually ends, and it ends in an abort only when a call of a
\* collaborator raised; a run that ends without an abort has made exactly
\* EPOCHS epochs: the loop variable is EPOCHS, the epoch counter is ahead
\* by EPOCHS and the run has emitted EPOCHS paired points.
C20_RunTerminates ==
  /\ (nb = "Training" /\ pc = "for_epoch" /\ epoch = 0
        /\ Len(validation_loader) >= 1)
       ~> (pc = "done" \/ pc = "aborted")
  /\ [][(pc' = "aborted" /\ Len(validation_loader) >= 1) =>
          pc \in CallPcs]_vars
  /\ [](nb = "Training" /\ pc = "done" =>
          /\ epoch = EPOCHS
          /\ epoch_number = start_epoch_number + EPOCHS
          /\ Cardinality(RunPairPoints) = EPOCHS)

\* a run of two epochs over non-empty sequences has ended without an abort
C20_Witness ==
  /\ nb = "Training"
  /\ pc = "done"
  /\ EPOCHS = 2
  /\ epoch = 2
  /\ B >= 2
  /\ Len(validation_loader) >= 1
  /\ Cardinality(RunPairPoints) = 2

V == Len(validation_loader)

\* the positions 1, ..., len, 1, ..., len, ... : the first n of them
InOrder(n, len) == [k \in 1..n |-> ((k - 1) % len) + 1]

\* C21: in the training notebook the batches updated in a run are, epoch
\* after epoch, the positions 1..B of the training sequence in order, each
\* once, and the batches evaluated are the positions 1..V of the
\* validation sequence in order, each once per epoch, whatever the
\* best-so-far checks decided; a run that ends without an abort has applied
\* EPOCHS * B updates and evaluated EPOCHS * V validation batches.
C21_EachBatchOnce ==
  (nb = "Training" /\ pc \notin {"start", "aborted"}) =>
    /\ trained = InOrder(Len(trained), B)
    /\ validated = InOrder(Len(validated), V)
    /\ Len(trained) =
         IF pc \in TrainLoopPcs
           THEN epoch * B + i + (IF pc \in {"gather", "report"} THEN 1 ELSE 0)
         ELSE IF pc \in AfterTrainPcs \cup {"track_best", "advance"}
           THEN (epoch + 1) * B
         ELSE epoch * B
    /\ Len(validated) =
         IF pc \in {"for_vdata", "val_gather"}
           THEN epoch * V + vnext
         ELSE IF pc \in {"val_predict", "val_loss"}
           THEN epoch * V + vnext - 1
         ELSE IF pc \in {"avg_vloss", "add_scalars", "track_best", "advance"}
           THEN (epoch + 1) * V
         ELSE epoch * V
    /\ pc = "done" =>
         /\ Len(trained) = EPOCHS * B
         /\ Len(validated) = EPOCHS * V

\* a run of two epochs, the second of which did not improve the
\* best-so-far, has ended after 2 * B updates and 2 * V evaluations
C21_Witness ==
  /\ nb = "Training"
  /\ pc = "done"
  /\ run = 1
  /\ EPOCHS = 2
  /\ B >= 2
  /\ V = 2
  /\ 1 \notin DOMAIN saved
  /\ Len(trained) = 2 * B
  /\ Len(validated) = 4

\* the sentinel and the mean validation losses of the epochs of this run
\* that have emitted their paired point
RunValidationMeans ==
  {Frac(Sentinel, 1)} \cup {writer[k].valid : k \in RunPairPoints}

\* C22: within a run the threshold never increases, and outside the moment
\* between an epoch's paired point and its best-so-far check it equals the
\* minimum of the sentinel and the mean validation losses of the run's
\* epochs so far.
C22_ThresholdIsMinimum ==
  /\ [][run' = run => ~FracLess(best_vloss, best_vloss')]_vars
  /\ []((nb = "Training" /\ pc \notin {"start", "track_best"}) =>
          /\ \A x \in RunValidationMeans : ~FracLess(x, best_vloss)
          /\ \E x \in RunValidationMeans : FracEq(x, best_vloss))

\* a later epoch of a run ended with a mean above the threshold an earlier
\* epoch had set
C22_Witness ==
  /\ nb = "Training"
  /\ pc = "advance"
  /\ epoch >= 1
  /\ FracLess(best_vloss, avg_vloss)
  /\ FracLess(best_vloss, Frac(Sentinel, 1))
  /\ Cardinality(RunPairPoints) >= 2

MinOf(S) == CHOOSE x \in S : \A y \in S : x <= y

\* the paired points of this run whose validation mean equals the threshold
AttainingPoints ==
  {k \in RunPairPoints : FracEq(writer[k].valid, best_vloss)}

\* C23 (as claimed): every snapshot holds the Model State after the last
\* training update of its epoch, and once an epoch of the run has been
\* checked, the most recently persisted snapshot is that of the earliest
\* epoch of the run whose mean validation loss equals the threshold.
C23_SnapshotOfEarliestBest ==
  (nb = "Training" /\ pc \notin {"start", "track_best"}) =>
    /\ \A e \in DOMAIN saved : saved[e] = RefModel((e + 1) * B)
    /\ RunPairPoints # {} =>
         /\ AttainingPoints # {}
         /\ DOMAIN saved # {}
         /\ MaxOf(DOMAIN saved) = writer[MinOf(AttainingPoints)].step - 1

C25_NoCarryAcrossEpochs ==
  pc \in {"for_batch", "tb_for_batch"} =>
    /\ Len(epoch_losses) = i
    /\ running_loss = SumSeq(LastK(epoch_losses, i % N))
    /\ (i > 0 /\ i % N = 0) =>
         /\ writer # << >>
         /\ writer[Len(writer)].train = Frac(SumSeq(LastK(epoch_losses, N)), N)

\* the first report of an epoch that follows an epoch which left a batch
\* loss in the accumulator
C25_Witness ==
  /\ nb = "Training"
  /\ pc = "for_batch"
  /\ epoch >= 1
  /\ N = 2
  /\ B = 3
  /\ i = 2
  /\ writer[Len(writer)].tag = "Loss/train"
  /\ writer[Len(writer)].train.num > 0

\* C26: with an empty validation sequence the computation of the mean
\* validation loss aborts the run, leaving log, threshold, snapshots, epoch
\* counter and Model State as they are; so no paired point is ever
\* emitted, nothing is persisted, the threshold stays at its initial value
\* and the epoch counter at 0, and no statement after the computation is
\* reached.
C26_EmptyValidationAborts ==
  /\ [][(V = 0 /\ pc \in {"avg_vloss", "tb_averages"}) =>
          /\ pc' = "aborted"
          /\ UNCHANGED << writer, saved, best_vloss, epoch_number, avg_vloss,
                          model, epoch >>]_vars
  /\ [](V = 0 =>
          /\ \A k \in 1..Len(writer) :
               writer[k].tag # "Training vs. Validation Loss"
          /\ saved = << >>
          /\ epoch_number = 0
          /\ avg_vloss = NoFrac
          /\ best_vloss \in {NoFrac, Frac(Sentinel, 1)}
          /\ pc \notin {"add_scalars", "track_best", "advance", "tb_report"}
          /\ (nb = "Training" => pc # "done"))

\* the first epoch over an empty validation sequence has aborted after its
\* training batches, at the computation of the mean
C26_Witness ==
  /\ nb = "Training"
  /\ pc = "aborted"
  /\ V = 0
  /\ B >= 2
  /\ i = B
  /\ mode = FALSE
  /\ vi = None
  /\ Len(trained) = B

\* C27: from the first statement of an epoch up to its best-so-far check
\* no step changes the epoch counter, the threshold or the snapshots, and
\* the step into the abort changes nothing but the position and is never
\* taken from the best-so-far check or after it: an aborted run holds the
\* values these had when the epoch began.  Its Model State is the one
\* reached by every update applied in the session, those of the unfinished
\* epoch included.
C27_AbortKeepsEpochStart ==
  /\ [][(pc \in ({"for_epoch", "train_one_epoch"} \cup TrainLoopPcs
                    \cup AfterTrainPcs)) =>
          UNCHANGED << epoch_number, best_vloss, saved >>]_vars
  /\ [][pc' = "aborted" =>
          /\ pc \notin {"track_best", "advance"}
          /\ UNCHANGED << epoch_number, best_vloss, saved, model, trained >>
       ]_vars
  /\ []((nb = "Training" /\ pc = "aborted") =>
          /\ epoch_number = start_epoch_number + epoch
          /\ Cardinality(RunPairPoints) = epoch
          /\ DOMAIN saved \subseteq 0..(epoch_number - 1)
          /\ Len(trained) = epoch * B + i
          /\ model = RefModel(start_epoch_number * B + Len(trained)))

\* a run aborted in the middle of a later epoch, after a snapshot and
\* after updates of that epoch
C27_Witness ==
  /\ nb = "Training"
  /\ pc = "aborted"
  /\ epoch >= 1
  /\ i >= 1
  /\ i < B
  /\ DOMAIN saved # {}
  /\ FracLess(best_vloss, Frac(Sentinel, 1))
  /\ model # saved[MaxOf(DOMAIN saved)]

\* all paired points of the session, by position in the log
AllPairPoints ==
  {k \in 1..Len(writer) : writer[k].tag = "Training vs. Validation Loss"}

\* C28: starting the epoch loop again keeps the epoch counter, the log,
\* the snapshots and Model State and sets the threshold to the sentinel;
\* the paired points of the session are numbered 1, 2, 3, ... across runs
\* and those of the new run follow the counter the previous run left;
\* the threshold of a run is the sentinel or a mean of that same run.
C28_RerunContinuesCounter ==
  /\ [][(nb = "Training" /\ run' # run) =>
          /\ run' = run + 1
          /\ best_vloss' = Frac(Sentinel, 1)
          /\ start_epoch_number' = epoch_number
          /\ UNCHANGED << epoch_number, writer, saved, model >>]_vars
  /\ []((nb = "Training" /\ pc # "start") =>
          /\ start_epoch_number = (run - 1) * EPOCHS
          /\ epoch_number >= start_epoch_number
          /\ {writer[k].step : k \in AllPairPoints}
               = 1..Cardinality(AllPairPoints)
          /\ \A j, k \in AllPairPoints : j < k => writer[j].step < writer[k].step
          /\ \A k \in AllPairPoints \ RunPairPoints :
               writer[k].step <= start_epoch_number
          /\ \E x \in RunValidationMeans : FracEq(x, best_vloss))

\* in a later run the threshold is above the best mean of an earlier run
C28_Witness ==
  /\ nb = "Training"
  /\ run >= 2
  /\ pc = "done"
  /\ start_epoch_number >= 1
  /\ \E k \in AllPairPoints \ RunPairPoints :
       FracLess(writer[k].valid, best_vloss)
  /\ \E e \in DOMAIN saved : e < start_epoch_number

\* C29: every persist writes a path no snapshot of the session has yet,
\* the one of the current epoch counter, which is above every path written
\* before, and leaves every earlier snapshot as it was; so the snapshots
\* of the session, over all its runs, each still hold the Model State of
\* their own epoch.
C29_SnapshotIdsUnique ==
  /\ [][saved' # saved =>
          /\ epoch_number \notin DOMAIN saved
          /\ DOMAIN saved' = DOMAIN saved \cup {epoch_number}
          /\ \A q \in DOMAIN saved :
               q < epoch_number /\ saved'[q] = saved[q]]_vars
  /\ [][\A q \in DOMAIN saved :
          q \in DOMAIN saved' /\ saved'[q] = saved[q]]_vars
  /\ [](\A e \in DOMAIN saved :
          e <= epoch_number /\ saved[e] = RefModel((e + 1) * B))

\* snapshots of two runs of the session exist side by side
C29_Witness ==
  /\ nb = "Training"
  /\ run >= 2
  /\ pc = "advance"
  /\ epoch_number \in DOMAIN saved
  /\ \E e \in DOMAIN saved :
       e < start_epoch_number /\ saved[e] # saved[epoch_number]

====
